---- MODULE Spec2Model ----
(***************************************************************************)
(* A model of the USD exchange-rate service of vk_teams_bot                *)
(* (src/vk-teams-bot-exchange-rate-2.py): the rate resolver get_rate with  *)
(* its two caches (the rate_cache dictionary and the functools.lru_cache   *)
(* wrapper), the backward searches, the monthly aggregation, the daily     *)
(* report with its monthly sub-reports, and the retry of a failed message. *)
(* The daily report of the first-day policy                                *)
(* (src/vk-teams-bot-exchange-rate.py), the recursive search of the        *)
(* monthly test report (src/test_month_report.py) and the scheduler thread *)
(* of run_scheduler are modelled next to it.                               *)
(*                                                                         *)
(* Calendar days are proleptic Gregorian ordinals (date.toordinal()); a    *)
(* datetime is a pair <<day, tod>> where tod is the time of day (0 is      *)
(* midnight).  Rates are 4-decimal fixed-point numbers (units of 0.0001);  *)
(* the payload of the rate source carries one more decimal (units of       *)
(* 0.00001) so that round(.., 4) is a real conversion.                     *)
(*                                                                         *)
(* The replies of the rate source are inputs of the operations: a reply    *)
(* table resp gives, for one operation, the outcome of the request made    *)
(* for each day (the live request for the current date, the archive        *)
(* request for any other day).  A request for the same day gets the same   *)
(* reply within one operation and may get another in the next.             *)
(***************************************************************************)
EXTENDS Integers, Sequences, FiniteSets

----------------------------------------------------------------------------
(* Bounds of the model.                                                    *)

\* Number of get_rate calls explored by SpecResolver.
MaxCalls == 3
\* Number of get_rate calls that come before a search or an aggregation.
MaxWarm == 1
\* The rate source's archive answers with something other than status 404
\* for at most this many days during one search or aggregation.
MaxPublished == 1
\* Number of operations explored by Spec, and the number of days around
\* the current date the rate source publishes during one of them.
MaxOps == 2
MaxReported == 2
\* Number of send_daily_report and retry_failed_message runs explored by
\* SpecDelivery; the send_daily_report runs are among the first MaxReports.
MaxJobs == 4
MaxReports == 2

----------------------------------------------------------------------------
(* The calendar: datetime.date, timedelta and calendar.monthrange.         *)

MIN_YEAR == 2025

None == -1

IsLeap(y) == (y % 4 = 0) /\ ((y % 100 # 0) \/ (y % 400 = 0))

monthrange(y, m) ==
    IF m = 2 THEN (IF IsLeap(y) THEN 29 ELSE 28)
    ELSE IF m \in {4, 6, 9, 11} THEN 30 ELSE 31

RECURSIVE DaysBeforeMonth(_, _)
DaysBeforeMonth(y, m) ==
    IF m = 1 THEN 0 ELSE DaysBeforeMonth(y, m - 1) + monthrange(y, m - 1)

DaysBeforeYear(y) ==
    LET p == y - 1 IN p * 365 + (p \div 4) - (p \div 100) + (p \div 400)

\* datetime(y, m, d).toordinal()
ToOrdinal(y, m, d) == DaysBeforeYear(y) + DaysBeforeMonth(y, m) + d

\* The days the model's calendar covers: 2024-11-30 .. 2025-03-02.
FirstDay == ToOrdinal(2024, 11, 30)
LastDay == ToOrdinal(2025, 3, 2)
Window == FirstDay .. LastDay
Years == 2023 .. 2025

\* The days around the start of 2024: 2023-12-30 .. 2024-01-31.
BoundaryDays == ToOrdinal(2023, 12, 30) .. ToOrdinal(2024, 1, 31)

Civil ==
    [n \in Window \cup BoundaryDays |->
        LET y == CHOOSE yy \in Years :
                    DaysBeforeYear(yy) < n /\ n <= DaysBeforeYear(yy + 1)
            m == CHOOSE mm \in 1 .. 12 :
                    /\ ToOrdinal(y, mm, 1) <= n
                    /\ n < ToOrdinal(y, mm, 1) + monthrange(y, mm)
        IN [year |-> y, month |-> m, day |-> n - ToOrdinal(y, m, 1) + 1]]

YearOf(n) == Civil[n].year
MonthOf(n) == Civil[n].month
DayOf(n) == Civil[n].day

\* date.weekday(): Monday is 0, Sunday is 6.
weekday(n) == (n + 6) % 7

----------------------------------------------------------------------------
(* The rate source.  An outcome is a payload value (>= 0, units of         *)
(* 0.00001) or one of three failures.                                      *)

\* http_client.get raised (timeout, connection error).
EXC == -2
\* response.status_code is not 200.
STATUS == -3
\* status 200 but response.json()["Valute"]["USD"]["Value"] raises.
MALFORMED == -4

Failures == {EXC, STATUS, MALFORMED}

\* The payload values of the model: 89.00004 and 90.12346.
PayloadValues == {8900004, 9012346}
Outcomes == Failures \cup PayloadValues

\* round(x, 4) of a value with five decimals, ties to even.
Round4(v) ==
    LET q == v \div 10
        r == v % 10
    IN  IF r < 5 THEN q
        ELSE IF r > 5 THEN q + 1
        ELSE IF q % 2 = 0 THEN q ELSE q + 1

\* The subsets of S with at most k elements.
RECURSIVE UpTo(_, _)
UpTo(S, k) ==
    IF k = 0 THEN {{}}
    ELSE LET P == UpTo(S, k - 1)
         IN  P \cup {A \cup {x} : A \in P, x \in S}

\* The reply tables that answer with status 404 except for at most k days
\* of S, for which they answer with a payload value of V.
RepliesWith(S, k, V) ==
    {[d \in Window |-> IF d \in DOMAIN g THEN g[d] ELSE STATUS] :
        g \in UNION {[A -> V] : A \in UpTo(S, k)}}

RepliesOn(S, k) == RepliesWith(S, k, PayloadValues)

Replies(S) == RepliesOn(S, MaxPublished)

\* The reply table in which every request has outcome o.
ConstResp(o) == [d \in Window |-> o]

----------------------------------------------------------------------------
(* The service state threaded through one operation:                       *)
(*   cache   self.rate_cache, a function from days to rates                *)
(*   lru     the functools.lru_cache of get_rate: entries [key, val],      *)
(*           least recently used first                                     *)
(*   lkr     self.last_known_rate                                          *)
(*   trace   the get_rate calls and the requests of the operation          *)
(*   fc      per day, the number of requests made for it so far            *)
(*   first   per day, the result of the first get_rate call for it         *)
(*   cc      per day, the number of get_rate calls made for it so far      *)
(*   file    last_failed_message.txt: <<>> when it does not exist, else    *)
(*           <<text>>                                                      *)
(*   last_rate, lss, lmr   self.last_rate, self.last_successful_send and   *)
(*           self.last_monthly_report (<<>> for None)                      *)
(*   sent    the send_to_chat calls of the operation, with their results   *)
(*   saved   the texts the operation wrote to last_failed_message.txt      *)
(*   last_saved   the text of the latest write to it (<<>> when none yet)   *)
(*   acks    the results of the send_to_chat calls still to come           *)

LruMaxSize == 365

Empty == [x \in {} |-> None]

Put(f, k, v) == [x \in (DOMAIN f) \cup {k} |-> IF x = k THEN v ELSE f[x]]

Event(ev, dt, ret, held) ==
    [ev |-> ev, day |-> dt[1], tod |-> dt[2], ret |-> ret, held |-> held]

\* One http_client.get for the day of dt (live or archive), with outcome o.
Request(s, kind, dt, o) ==
    [s EXCEPT !.trace = Append(@, Event(kind, dt, o, FALSE)),
              !.fc = Put(@, dt[1], IF dt[1] \in DOMAIN @ THEN @[dt[1]] + 1 ELSE 1)]

\* get_rate_try with the rate_cache lookup left out: every call requests.
get_rate_try_nolookup(s, dt, now, resp) ==
    LET d == dt[1] IN
    IF d # now /\ YearOf(d) < MIN_YEAR THEN [s |-> s, ret |-> None, exc |-> FALSE]
    ELSE
        LET kind == IF d = now THEN "live" ELSE "archive"
            o == resp[d]
            s1 == Request(s, kind, dt, o)
        IN  IF o = EXC \/ o = MALFORMED THEN [s |-> s1, ret |-> None, exc |-> TRUE]
            ELSE IF o = STATUS THEN [s |-> s1, ret |-> None, exc |-> FALSE]
            ELSE LET rate == Round4(o)
                 IN [s |-> [s1 EXCEPT !.cache = Put(@, d, rate), !.lkr = rate],
                     ret |-> rate, exc |-> FALSE]

\* get_rate_try with the MIN_YEAR test left out.
get_rate_try_nominyear(s, dt, now, resp) ==
    LET d == dt[1] IN
    IF d \in DOMAIN s.cache THEN [s |-> s, ret |-> s.cache[d], exc |-> FALSE]
    ELSE
        LET kind == IF d = now THEN "live" ELSE "archive"
            o == resp[d]
            s1 == Request(s, kind, dt, o)
        IN  IF o = EXC \/ o = MALFORMED THEN [s |-> s1, ret |-> None, exc |-> TRUE]
            ELSE IF o = STATUS THEN [s |-> s1, ret |-> None, exc |-> FALSE]
            ELSE LET rate == Round4(o)
                 IN [s |-> [s1 EXCEPT !.cache = Put(@, d, rate), !.lkr = rate],
                     ret |-> rate, exc |-> FALSE]

\* The try block of get_rate; exc tells that it was left by an exception.
get_rate_try(s, dt, now, resp) ==
    LET d == dt[1] IN
    IF d \in DOMAIN s.cache THEN [s |-> s, ret |-> s.cache[d], exc |-> FALSE]
    ELSE IF d # now /\ YearOf(d) < MIN_YEAR THEN [s |-> s, ret |-> None, exc |-> FALSE]
    ELSE
        LET kind == IF d = now THEN "live" ELSE "archive"
            o == resp[d]
            s1 == Request(s, kind, dt, o)
        IN  IF o = EXC \/ o = MALFORMED THEN [s |-> s1, ret |-> None, exc |-> TRUE]
            ELSE IF o = STATUS THEN [s |-> s1, ret |-> None, exc |-> FALSE]
            ELSE LET rate == Round4(o)
                 IN [s |-> [s1 EXCEPT !.cache = Put(@, d, rate), !.lkr = rate],
                     ret |-> rate, exc |-> FALSE]

\* The one element of a singleton set.  { e(x) : x \in {v} } binds x to
\* the value of v, so that v is computed once.
The(S) == CHOOSE x \in S : TRUE

\* get_rate_body without the except clause.
get_rate_body_noexcept(s, dt, now, resp) ==
    The({[s |-> t.s, ret |-> t.ret, raised |-> t.exc] :
            t \in {get_rate_try(s, dt, now, resp)}})

\* The body of get_rate, below the decorator: try ... except Exception.
get_rate_body(s, dt, now, resp) ==
    The({[s |-> t.s, ret |-> t.ret, raised |-> FALSE] :
            t \in {get_rate_try(s, dt, now, resp)}})

LruIndex(lru, dt) ==
    IF \E i \in 1 .. Len(lru) : lru[i].key = dt
    THEN CHOOSE i \in 1 .. Len(lru) : lru[i].key = dt
    ELSE 0

Without(q, i) == [j \in 1 .. Len(q) - 1 |-> IF j < i THEN q[j] ELSE q[j + 1]]

\* Insert a new entry, dropping the least recently used one when full.
LruInsert(lru, e) ==
    IF Len(lru) >= LruMaxSize THEN Append(Tail(lru), e) ELSE Append(lru, e)

\* @lru_cache(maxsize=365) around the body, keyed by the datetime argument.
\* A hit returns the remembered result and makes the entry the most
\* recently used; a miss runs the body and remembers what it returned
\* (nothing when it raised).
lru_cache(s, dt, now, resp) ==
    LET i == LruIndex(s.lru, dt) IN
    IF i # 0
    THEN [s |-> [s EXCEPT !.lru = Append(Without(@, i), s.lru[i])],
          ret |-> s.lru[i].val, raised |-> FALSE]
    ELSE The({IF b.raised THEN b
              ELSE [s |-> [b.s EXCEPT !.lru = LruInsert(@, [key |-> dt, val |-> b.ret])],
                    ret |-> b.ret, raised |-> FALSE] :
                b \in {get_rate_body(s, dt, now, resp)}})

\* The bookkeeping of a finished get_rate call r.
Observe(r, dt, held) ==
    LET d == dt[1] IN
    [s |-> [r.s EXCEPT !.trace = Append(@, Event("call", dt, r.ret, held)),
                       !.first = IF d \in DOMAIN @ THEN @ ELSE Put(@, d, r.ret),
                       !.cc = Put(@, d, IF d \in DOMAIN @ THEN @[d] + 1 ELSE 1)],
     ret |-> r.ret, raised |-> r.raised]

\* get_rate as callers see it.
get_rate(s, dt, now, resp) ==
    The({The({Observe(r, dt, dt[1] \in DOMAIN s0.cache) :
                r \in {lru_cache(s0, dt, now, resp)}}) :
            s0 \in {s}})

----------------------------------------------------------------------------
(* The backward searches.                                                  *)

Result(s, ret) == [s |-> s, ret |-> ret]

\* for delta in range(delta, stop): the first get_rate(date - delta days)
\* that is not None, or None.
RECURSIVE SearchBack(_, _, _, _, _, _)
SearchBack(s, dt, now, resp, delta, stop) ==
    IF delta >= stop THEN Result(s, None)
    ELSE The({IF r.ret # None THEN Result(r.s, r.ret)
              ELSE SearchBack(r.s, dt, now, resp, delta + 1, stop) :
                r \in {get_rate(s, <<dt[1] - delta, dt[2]>>, now, resp)}})

\* get_previous_workday_rate with range(0, 8).
get_previous_workday_rate_self(s, dt, now, resp) ==
    SearchBack(s, dt, now, resp, 0, 8)

get_previous_workday_rate(s, dt, now, resp) ==
    SearchBack(s, dt, now, resp, 1, 8)

\* The part of get_last_available_rate after the date itself gave None:
\* for a Sunday the day sat before it, then the days before the date.
AfterOwnDate(s, dt, now, resp, sat, stop) ==
    IF weekday(dt[1]) = 6
    THEN The({IF r.ret # None THEN Result(r.s, r.ret)
              ELSE SearchBack(r.s, dt, now, resp, 1, stop) :
                r \in {get_rate(s, <<sat, dt[2]>>, now, resp)}})
    ELSE SearchBack(s, dt, now, resp, 1, stop)

\* get_last_available_rate with saturday = date - timedelta(days=2).
get_last_available_rate_sat2(s, dt, now, resp) ==
    The({IF r.ret # None THEN Result(r.s, r.ret)
         ELSE AfterOwnDate(r.s, dt, now, resp, dt[1] - 2, 8) :
            r \in {get_rate(s, dt, now, resp)}})

\* get_last_available_rate with range(1, 9).
get_last_available_rate_long(s, dt, now, resp) ==
    The({IF r.ret # None THEN Result(r.s, r.ret)
         ELSE AfterOwnDate(r.s, dt, now, resp, dt[1] - 1, 9) :
            r \in {get_rate(s, dt, now, resp)}})

get_last_available_rate(s, dt, now, resp) ==
    The({IF r.ret # None THEN Result(r.s, r.ret)
         ELSE AfterOwnDate(r.s, dt, now, resp, dt[1] - 1, 8) :
            r \in {get_rate(s, dt, now, resp)}})

----------------------------------------------------------------------------
(* The monthly aggregation.                                                *)

RECURSIVE Sum(_)
Sum(q) == IF q = <<>> THEN 0 ELSE Head(q) + Sum(Tail(q))

\* all_rates[0] instead of min(all_rates).
Min_first(q) == q[1]

Min(q) == CHOOSE x \in {q[i] : i \in 1 .. Len(q)} : \A i \in 1 .. Len(q) : x <= q[i]
Max(q) == CHOOSE x \in {q[i] : i \in 1 .. Len(q)} : \A i \in 1 .. Len(q) : x >= q[i]

\* round(total / n, 4) of rates in units of 0.0001, ties to even.
RoundDiv(total, n) ==
    LET q == total \div n
        r == total % n
    IN  IF 2 * r < n THEN q
        ELSE IF 2 * r > n THEN q + 1
        ELSE IF q % 2 = 0 THEN q ELSE q + 1

calculate_trend(rates) ==
    IF rates = <<>> THEN "no data"
    ELSE IF rates[Len(rates)] > rates[1] THEN "up"
    ELSE IF rates[Len(rates)] < rates[1] THEN "down"
    ELSE "flat"

\* for day in range(day, 0, -1): the first day of the month whose get_rate
\* is not None, or the last day of the month.
RECURSIVE SearchMonthBack(_, _, _, _, _, _)
SearchMonthBack(s, y, m, day, now, resp) ==
    IF day < 1 THEN Result(s, ToOrdinal(y, m, monthrange(y, m)))
    ELSE The({IF r.ret # None THEN Result(r.s, ToOrdinal(y, m, day))
              ELSE SearchMonthBack(r.s, y, m, day - 1, now, resp) :
                r \in {get_rate(s, <<ToOrdinal(y, m, day), 0>>, now, resp)}})

\* The part of get_last_available_date after the last day gave None.
AfterLastDay(s, y, m, now, resp) ==
    LET last_day == monthrange(y, m)
        last_date == ToOrdinal(y, m, last_day)
    IN  IF weekday(last_date) = 6
        THEN The({IF r.ret # None THEN Result(r.s, last_date - 1)
                  ELSE SearchMonthBack(r.s, y, m, last_day - 1, now, resp) :
                    r \in {get_rate(s, <<last_date - 1, 0>>, now, resp)}})
        ELSE SearchMonthBack(s, y, m, last_day - 1, now, resp)

get_last_available_date(s, y, m, now, resp) ==
    LET last_date == ToOrdinal(y, m, monthrange(y, m)) IN
    The({IF r.ret # None THEN Result(r.s, last_date)
         ELSE AfterLastDay(r.s, y, m, now, resp) :
            r \in {get_rate(s, <<last_date, 0>>, now, resp)}})

\* The day loop of calculate_monthly_stats with the carry-forward branch
\* (elif last_valid_rate is not None) left out.
RECURSIVE CollectMonth_nocarry(_, _, _, _, _, _)
CollectMonth_nocarry(acc, y, m, day, now, resp) ==
    IF day > monthrange(y, m) THEN acc
    ELSE The({CollectMonth_nocarry(
                IF r.ret # None
                THEN [s |-> r.s, carry |-> r.ret,
                      all |-> Append(a.all, r.ret), work |-> Append(a.work, r.ret)]
                ELSE [a EXCEPT !.s = r.s],
                y, m, day + 1, now, resp) :
            a \in {acc}, r \in {get_rate(acc.s, <<ToOrdinal(y, m, day), 0>>, now, resp)}})

\* The day loop of calculate_monthly_stats: acc holds the state, the carry
\* (last_valid_rate), all_rates and workday_rates.
RECURSIVE CollectMonth(_, _, _, _, _, _)
CollectMonth(acc, y, m, day, now, resp) ==
    IF day > monthrange(y, m) THEN acc
    ELSE The({CollectMonth(
                IF r.ret # None
                THEN [s |-> r.s, carry |-> r.ret,
                      all |-> Append(a.all, r.ret), work |-> Append(a.work, r.ret)]
                ELSE IF a.carry # None
                THEN [s |-> r.s, carry |-> a.carry,
                      all |-> Append(a.all, a.carry), work |-> a.work]
                ELSE [a EXCEPT !.s = r.s],
                y, m, day + 1, now, resp) :
            a \in {acc}, r \in {get_rate(acc.s, <<ToOrdinal(y, m, day), 0>>, now, resp)}})

\* calculate_monthly_stats returned None.
NoStats ==
    [ok |-> FALSE, last_rate |-> None, avg_rate |-> None, avg_workdays_rate |-> None,
     min_rate |-> None, max_rate |-> None, range |-> None, days_count |-> 0,
     workdays_count |-> 0, trend |-> "no data", last_available_date |-> None,
     all_rates |-> <<>>, workday_rates |-> <<>>]

\* The dictionary calculate_monthly_stats returns (with the two series).
StatsDict(all, work, la, lad) ==
    [ok |-> TRUE,
     last_rate |-> IF la # None THEN la ELSE all[Len(all)],
     avg_rate |-> RoundDiv(Sum(all), Len(all)),
     avg_workdays_rate |-> IF work # <<>> THEN RoundDiv(Sum(work), Len(work)) ELSE None,
     min_rate |-> Min(all),
     max_rate |-> Max(all),
     range |-> Max(all) - Min(all),
     days_count |-> Len(all),
     workdays_count |-> Len(work),
     trend |-> calculate_trend(all),
     last_available_date |-> lad,
     all_rates |-> all,
     workday_rates |-> work]

calculate_monthly_stats(s, y, m, now, resp) ==
    IF y < MIN_YEAR THEN Result(s, NoStats)
    ELSE
        LET last_day == monthrange(y, m)
            prev_month == IF m > 1 THEN m - 1 ELSE 12
            prev_year == IF m > 1 THEN y ELSE y - 1
            prev_month_last_day == monthrange(prev_year, prev_month)
        IN  The({The({IF c.all = <<>> THEN Result(c.s, NoStats)
                      ELSE The({The({Result(lad.s, StatsDict(c.all, c.work, la.ret, lad.ret)) :
                                    lad \in {get_last_available_date(la.s, y, m, now, resp)}}) :
                                la \in {get_last_available_rate(
                                            c.s, <<ToOrdinal(y, m, last_day), 0>>, now, resp)}}) :
                    c \in {CollectMonth([s |-> p.s, carry |-> p.ret, all |-> <<>>, work |-> <<>>],
                                        y, m, 1, now, resp)}}) :
                p \in {get_rate(s, <<ToOrdinal(prev_year, prev_month, prev_month_last_day), 0>>,
                                now, resp)}})

----------------------------------------------------------------------------
(* The message texts.  A text is a record of the parts the code formats    *)
(* into it; a number printed with four decimals is kept as it is printed.  *)

\* abs(change) >= 1.0, in units of 0.0001.
JumpThreshold == 10000

Abs(x) == IF x < 0 THEN -x ELSE x

\* f"{x:.4f}": the sign, the integer part and the four decimals.
Fmt4(x) == [neg |-> x < 0, whole |-> Abs(x) \div 10000, frac |-> Abs(x) % 10000]

\* format_change without the plus sign of a rise.
format_change_unsigned(change) ==
    IF change > 0 THEN [marker |-> "rise", plus |-> FALSE, value |-> Fmt4(change)]
    ELSE IF change < 0 THEN [marker |-> "fall", plus |-> FALSE, value |-> Fmt4(change)]
    ELSE [marker |-> "unchanged", plus |-> FALSE, value |-> Fmt4(0)]

\* format_change: the marker, the plus sign of a rise and f"{change:.4f}".
format_change(change) ==
    IF change > 0 THEN [marker |-> "rise", plus |-> TRUE, value |-> Fmt4(change)]
    ELSE IF change < 0 THEN [marker |-> "fall", plus |-> FALSE, value |-> Fmt4(change)]
    ELSE [marker |-> "unchanged", plus |-> FALSE, value |-> Fmt4(0)]

\* f"({percent:+.2f}%)", in units of 0.01 percent; not shown for prev_rate 0.
format_change_percent(change, prev_rate) ==
    IF prev_rate = 0 THEN [shown |-> FALSE, neg |-> FALSE, value |-> 0]
    ELSE [shown |-> TRUE, neg |-> change < 0,
          value |-> RoundDiv(Abs(change) * 10000, prev_rate)]

BlankText ==
    [kind |-> "", date |-> 0, info |-> 0, rate |-> Fmt4(0),
     change |-> format_change(0), percent |-> format_change_percent(0, 0),
     jump |-> FALSE, figures |-> <<>>, count |-> 0, trend |-> ""]

\* The text saved when a rate is missing.
NoDataText == [BlankText EXCEPT !.kind = "no data"]

\* The text sent after the daily message could not be sent.
AlertText == [BlankText EXCEPT !.kind = "alert"]

\* DailyText with abs(change) > 1.0.
DailyText_strict(kind, date, info, current_rate, prev_rate) ==
    LET change == current_rate - prev_rate IN
    [BlankText EXCEPT !.kind = kind, !.date = date, !.info = info,
                      !.rate = Fmt4(current_rate),
                      !.change = format_change(change),
                      !.percent = format_change_percent(change, prev_rate),
                      !.jump = Abs(change) > JumpThreshold]

\* The daily message (kind "daily") or the end-of-month message (kind
\* "month end", with the date of the last available rate as info, 0 when
\* it is not printed).
DailyText(kind, date, info, current_rate, prev_rate) ==
    LET change == current_rate - prev_rate IN
    [BlankText EXCEPT !.kind = kind, !.date = date, !.info = info,
                      !.rate = Fmt4(current_rate),
                      !.change = format_change(change),
                      !.percent = format_change_percent(change, prev_rate),
                      !.jump = Abs(change) >= JumpThreshold]

\* The three monthly messages; the month is given by its first day.
BideaseText(y, m, stats) ==
    [BlankText EXCEPT !.kind = "bidease", !.date = ToOrdinal(y, m, 1),
                      !.info = stats.last_available_date,
                      !.rate = Fmt4(RoundDiv(stats.last_rate * 106, 100)),
                      !.figures = <<Fmt4(stats.last_rate)>>]

AvgText(y, m, stats) ==
    [BlankText EXCEPT !.kind = "average", !.date = ToOrdinal(y, m, 1),
                      !.info = stats.last_available_date,
                      !.rate = Fmt4(stats.avg_rate),
                      !.count = stats.days_count,
                      !.figures = <<Fmt4(stats.last_rate)>>]

AnalyticsText(y, m, stats) ==
    [BlankText EXCEPT !.kind = "analytics", !.date = ToOrdinal(y, m, 1),
                      !.figures = <<Fmt4(stats.min_rate), Fmt4(stats.max_rate),
                                    Fmt4(stats.range)>>,
                      !.trend = stats.trend]

----------------------------------------------------------------------------
(* Sending, the monthly reports, the daily report and the retry.           *)

\* The most send_to_chat calls one operation makes.
MaxSends == 4

\* send_to_chat: True when the messenger answers with status 200, False
\* for another status or an exception.
send_to_chat(s, text) ==
    The({Result([t EXCEPT !.sent = Append(@, [text |-> text, ok |-> Head(t.acks)]),
                          !.acks = Tail(@)],
                Head(t.acks)) :
            t \in {s}})

\* open("last_failed_message.txt", "a") instead of "w".
write_failed_message_append(s, text) ==
    [s EXCEPT !.file = Append(@, text), !.saved = Append(@, text),
              !.last_saved = <<text>>]

\* with open("last_failed_message.txt", "w") as f: f.write(text)
write_failed_message(s, text) ==
    [s EXCEPT !.file = <<text>>, !.saved = Append(@, text), !.last_saved = <<text>>]

is_last_day_of_month(d) == DayOf(d) = monthrange(YearOf(d), MonthOf(d))

\* send_monthly_reports giving up at the first send_to_chat that fails.
send_monthly_reports_stop(s, y, m, dt, resp) ==
    The({IF ~st.ret.ok THEN Result(st.s, FALSE)
         ELSE The({IF ~a.ret THEN Result(a.s, FALSE)
                   ELSE The({IF ~b.ret THEN Result(b.s, FALSE)
                             ELSE The({Result([c.s EXCEPT !.lmr = dt], TRUE) :
                                        c \in {send_to_chat(b.s, AnalyticsText(y, m, st.ret))}}) :
                                b \in {send_to_chat(a.s, AvgText(y, m, st.ret))}}) :
                        a \in {send_to_chat(st.s, BideaseText(y, m, st.ret))}}) :
            st \in {calculate_monthly_stats(s, y, m, dt[1], resp)}})

\* send_monthly_reports(year, month) at the datetime dt.
send_monthly_reports(s, y, m, dt, resp) ==
    The({IF ~st.ret.ok THEN Result(st.s, FALSE)
         ELSE The({The({The({Result([c.s EXCEPT !.lmr = dt], TRUE) :
                                c \in {send_to_chat(b.s, AnalyticsText(y, m, st.ret))}}) :
                            b \in {send_to_chat(a.s, AvgText(y, m, st.ret))}}) :
                        a \in {send_to_chat(st.s, BideaseText(y, m, st.ret))}}) :
            st \in {calculate_monthly_stats(s, y, m, dt[1], resp)}})

\* SendDaily saving the alert text instead of the message.
SendDaily_savealert(s, message, current_rate, dt, resp) ==
    The({IF ~r.ret
         THEN The({Result(write_failed_message(a.s, AlertText), FALSE) :
                    a \in {send_to_chat(r.s, AlertText)}})
         ELSE The({Result([m.s EXCEPT !.lss = dt, !.last_rate = current_rate], TRUE) :
                    m \in {IF is_last_day_of_month(dt[1])
                           THEN send_monthly_reports(r.s, YearOf(dt[1]), MonthOf(dt[1]),
                                                     dt, resp)
                           ELSE Result(r.s, FALSE)}}) :
            r \in {send_to_chat(s, message)}})

\* send_daily_report from success = self.send_to_chat(message) on.
SendDaily(s, message, current_rate, dt, resp) ==
    The({IF ~r.ret
         THEN The({Result(write_failed_message(a.s, message), FALSE) :
                    a \in {send_to_chat(r.s, AlertText)}})
         ELSE The({Result([m.s EXCEPT !.lss = dt, !.last_rate = current_rate], TRUE) :
                    m \in {IF is_last_day_of_month(dt[1])
                           THEN send_monthly_reports(r.s, YearOf(dt[1]), MonthOf(dt[1]),
                                                     dt, resp)
                           ELSE Result(r.s, FALSE)}}) :
            r \in {send_to_chat(s, message)}})

\* send_daily_report from the composition of the message on.
ComposeDaily(s, current_rate, prev_rate, dt, resp) ==
    IF is_last_day_of_month(dt[1])
    THEN The({SendDaily(lad.s,
                        DailyText("month end", dt[1],
                                  IF <<lad.ret, 0>> # dt THEN lad.ret ELSE 0,
                                  current_rate, prev_rate),
                        current_rate, dt, resp) :
                lad \in {get_last_available_date(s, YearOf(dt[1]), MonthOf(dt[1]),
                                                 dt[1], resp)}})
    ELSE SendDaily(s, DailyText("daily", dt[1], 0, current_rate, prev_rate),
                   current_rate, dt, resp)

\* send_daily_report without the write of lines 300-301.
send_daily_report_nosave(s, dt, resp) ==
    The({The({The({IF c.ret = None \/ p.ret = None
                   THEN Result(c.s, FALSE)
                   ELSE IF c.ret = p.ret /\ ~is_last_day_of_month(dt[1])
                   THEN Result(c.s, FALSE)
                   ELSE ComposeDaily(c.s, c.ret, p.ret, dt, resp) :
                    c \in {IF is_last_day_of_month(dt[1]) /\ c0.ret = None
                           THEN get_last_available_rate(p.s, dt, dt[1], resp)
                           ELSE Result(p.s, c0.ret)}}) :
                p \in {get_previous_workday_rate(c0.s, dt, dt[1], resp)}}) :
            c0 \in {get_rate(s, dt, dt[1], resp)}})

\* send_daily_report without the test of lines 304-306.
send_daily_report_noskip(s, dt, resp) ==
    The({The({The({IF c.ret = None \/ p.ret = None
                   THEN Result(write_failed_message(c.s, NoDataText), FALSE)
                   ELSE ComposeDaily(c.s, c.ret, p.ret, dt, resp) :
                    c \in {IF is_last_day_of_month(dt[1]) /\ c0.ret = None
                           THEN get_last_available_rate(p.s, dt, dt[1], resp)
                           ELSE Result(p.s, c0.ret)}}) :
                p \in {get_previous_workday_rate(c0.s, dt, dt[1], resp)}}) :
            c0 \in {get_rate(s, dt, dt[1], resp)}})

\* send_daily_report at the datetime dt (today = datetime.now()).
send_daily_report(s, dt, resp) ==
    The({The({The({IF c.ret = None \/ p.ret = None
                   THEN Result(write_failed_message(c.s, NoDataText), FALSE)
                   ELSE IF c.ret = p.ret /\ ~is_last_day_of_month(dt[1])
                   THEN Result(c.s, FALSE)
                   ELSE ComposeDaily(c.s, c.ret, p.ret, dt, resp) :
                    c \in {IF is_last_day_of_month(dt[1]) /\ c0.ret = None
                           THEN get_last_available_rate(p.s, dt, dt[1], resp)
                           ELSE Result(p.s, c0.ret)}}) :
                p \in {get_previous_workday_rate(c0.s, dt, dt[1], resp)}}) :
            c0 \in {get_rate(s, dt, dt[1], resp)}})

\* retry_failed_message removing the file whatever send_to_chat returned.
retry_failed_message_remove(s) ==
    IF s.file = <<>> THEN Result(s, FALSE)
    ELSE The({Result([r.s EXCEPT !.file = <<>>], r.ret) :
                r \in {send_to_chat(s, s.file[1])}})

retry_failed_message(s) ==
    IF s.file = <<>> THEN Result(s, FALSE)
    ELSE The({IF r.ret THEN Result([r.s EXCEPT !.file = <<>>], TRUE)
              ELSE Result(r.s, FALSE) :
                r \in {send_to_chat(s, s.file[1])}})

----------------------------------------------------------------------------
(* The first-day policy (src/vk-teams-bot-exchange-rate.py): the daily     *)
(* report sends the monthly messages for the month before on day 1, keeps  *)
(* no failed message and never looks at what send_to_chat returned.        *)

\* calculate_monthly_stats of the first-day policy: last_rate is the last
\* element of all_rates, and there is no last_available_date.
first_day_calculate_monthly_stats(s, y, m, now, resp) ==
    IF y < MIN_YEAR THEN Result(s, NoStats)
    ELSE
        LET prev_month == IF m > 1 THEN m - 1 ELSE 12
            prev_year == IF m > 1 THEN y ELSE y - 1
            prev_month_last_day == monthrange(prev_year, prev_month)
        IN  The({The({IF c.all = <<>> THEN Result(c.s, NoStats)
                      ELSE Result(c.s, StatsDict(c.all, c.work, None, 0)) :
                    c \in {CollectMonth([s |-> p.s, carry |-> p.ret, all |-> <<>>, work |-> <<>>],
                                        y, m, 1, now, resp)}}) :
                p \in {get_rate(s, <<ToOrdinal(prev_year, prev_month, prev_month_last_day), 0>>,
                                now, resp)}})

\* The three monthly messages of the first-day policy, for the month
\* (y, m), from if stats: on.
first_day_monthly(s, y, m, resp, now) ==
    The({IF ~st.ret.ok THEN st.s
         ELSE The({The({The({c.s :
                                c \in {send_to_chat(b.s, AnalyticsText(y, m, st.ret))}}) :
                            b \in {send_to_chat(a.s, AvgText(y, m, st.ret))}}) :
                        a \in {send_to_chat(st.s, BideaseText(y, m, st.ret))}}) :
            st \in {first_day_calculate_monthly_stats(s, y, m, now, resp)}})

\* first_day_send_daily_report without the test today.day == 1.
first_day_send_daily_report_everyday(s, dt, resp) ==
    The({The({IF c.ret = None THEN Result(p.s, FALSE)
              ELSE IF p.ret = None THEN Result(p.s, FALSE)
              ELSE IF c.ret = p.ret THEN Result(p.s, FALSE)
              ELSE The({The({Result([m EXCEPT !.lss = dt, !.last_rate = c.ret], TRUE) :
                                m \in {first_day_monthly(r.s, YearOf(dt[1] - 1),
                                                         MonthOf(dt[1] - 1), resp, dt[1])}}) :
                        r \in {send_to_chat(p.s, DailyText("daily", dt[1], 0, c.ret, p.ret))}}) :
                p \in {get_previous_workday_rate(c.s, dt, dt[1], resp)}}) :
            c \in {get_rate(s, dt, dt[1], resp)}})

\* send_daily_report of the first-day policy at the datetime dt.
first_day_send_daily_report(s, dt, resp) ==
    The({The({IF c.ret = None THEN Result(p.s, FALSE)
              ELSE IF p.ret = None THEN Result(p.s, FALSE)
              ELSE IF c.ret = p.ret THEN Result(p.s, FALSE)
              ELSE The({The({Result([m EXCEPT !.lss = dt, !.last_rate = c.ret], TRUE) :
                                m \in {IF DayOf(dt[1]) = 1
                                       THEN first_day_monthly(r.s, YearOf(dt[1] - 1),
                                                              MonthOf(dt[1] - 1), resp, dt[1])
                                       ELSE r.s}}) :
                        r \in {send_to_chat(p.s, DailyText("daily", dt[1], 0, c.ret, p.ret))}}) :
                p \in {get_previous_workday_rate(c.s, dt, dt[1], resp)}}) :
            c \in {get_rate(s, dt, dt[1], resp)}})

----------------------------------------------------------------------------
(* The monthly test report (src/test_month_report.py): get_rate without a  *)
(* cache, the recursive get_last_available_rate and its                    *)
(* calculate_monthly_stats.  A reply table of it covers BoundaryDays.      *)

\* The year of: if prev_date.year < 2024.
BoundaryYear == 2024

\* get_rate in test mode (always the archive request); by names the caller
\* in the trace: "call" for calculate_monthly_stats, "search start" for the
\* first get_rate of a get_last_available_rate, "search" for those of its
\* recursive calls.
test_get_rate(s, dt, resp, by) ==
    The({[s |-> [Request(s, "archive", dt, o) EXCEPT
                    !.trace = Append(@, Event(by, dt, IF o \in Failures THEN None ELSE o,
                                              FALSE))],
          ret |-> IF o \in Failures THEN None ELSE o] :
            o \in {resp[dt[1]]}})

\* get_last_available_rate testing the year of date instead of prev_date.
RECURSIVE test_get_last_available_rate_late(_, _, _, _)
test_get_last_available_rate_late(s, dt, resp, by) ==
    The({IF r.ret # None THEN Result(r.s, r.ret)
         ELSE IF YearOf(dt[1]) < BoundaryYear THEN Result(r.s, None)
         ELSE test_get_last_available_rate_late(r.s, <<dt[1] - 1, dt[2]>>, resp, "search") :
            r \in {test_get_rate(s, dt, resp, by)}})

\* get_last_available_rate of the test report.
RECURSIVE test_get_last_available_rate(_, _, _, _)
test_get_last_available_rate(s, dt, resp, by) ==
    The({IF r.ret # None THEN Result(r.s, r.ret)
         ELSE IF YearOf(dt[1] - 1) < BoundaryYear THEN Result(r.s, None)
         ELSE test_get_last_available_rate(r.s, <<dt[1] - 1, dt[2]>>, resp, "search") :
            r \in {test_get_rate(s, dt, resp, by)}})

\* The day loop of its calculate_monthly_stats after the days 1 .. day:
\* the state, current_rate and rates.
RECURSIVE TestCollectMonth(_, _, _, _, _)
TestCollectMonth(s, y, m, day, resp) ==
    IF day = 0 THEN [s |-> s, cur |-> None, rates |-> <<>>]
    ELSE The({The({IF r.ret # None
                   THEN [s |-> r.s, cur |-> r.ret, rates |-> Append(a.rates, r.ret)]
                   ELSE IF a.cur # None
                   THEN [s |-> r.s, cur |-> a.cur, rates |-> Append(a.rates, a.cur)]
                   ELSE The({IF g.ret = None THEN [a EXCEPT !.s = g.s]
                             ELSE [s |-> g.s, cur |-> g.ret, rates |-> Append(a.rates, g.ret)] :
                               g \in {test_get_last_available_rate(
                                           r.s, <<ToOrdinal(y, m, day) - 1, 0>>, resp,
                                           "search start")}}) :
                    r \in {test_get_rate(a.s, <<ToOrdinal(y, m, day), 0>>, resp, "call")}}) :
                a \in {TestCollectMonth(s, y, m, day - 1, resp)}})

\* Its calculate_monthly_stats; avg_rate, an unrounded quotient, is kept
\* as <<sum(rates), len(rates)>>.
test_calculate_monthly_stats(s, y, m, resp) ==
    The({IF c.rates = <<>>
         THEN Result(c.s, [ok |-> FALSE, last_rate |-> None, avg_rate |-> <<0, 1>>,
                           days_count |-> 0])
         ELSE Result(c.s, [ok |-> TRUE, last_rate |-> c.rates[Len(c.rates)],
                           avg_rate |-> <<Sum(c.rates), Len(c.rates)>>,
                           days_count |-> Len(c.rates)]) :
            c \in {The({TestCollectMonth(s0, y, m, monthrange(y, m), resp) : s0 \in {s}})}})

----------------------------------------------------------------------------
VARIABLES
    policy,         \* the module that runs: "last day" or "first day"
    today,          \* datetime.now().date()
    rate_cache,     \* self.rate_cache
    lru,            \* the lru_cache of get_rate
    last_known_rate,\* self.last_known_rate
    last_rate,      \* self.last_rate
    last_successful_send,   \* self.last_successful_send
    last_monthly_report,    \* self.last_monthly_report
    failed_file,    \* last_failed_message.txt
    sent,           \* the send_to_chat calls of the last operation
    saved,          \* the texts the last operation wrote to the file
    last_saved,     \* the text of the latest write to the file
    call,           \* the last operation: its name, arguments and result
    trace,          \* the get_rate calls and requests of the last operation
    fetchCount,     \* per day, the requests made for it so far
    firstResult,    \* per day, the result of the first get_rate call for it
    callCount,      \* per day, the get_rate calls made for it so far
    ncalls,         \* operations performed so far
    sched           \* the scheduler thread of run_scheduler

\* The clock and the service with its bookkeeping.
serviceVars == <<policy, today, rate_cache, lru, last_known_rate, last_rate,
                 last_successful_send, last_monthly_report, failed_file, sent, saved,
                 last_saved, call, trace, fetchCount, firstResult, callCount, ncalls>>

vars == <<serviceVars, sched>>

\* The scheduler thread before its first schedule.run_pending():
\*   pc        "sleep" (in time.sleep), "run_pending" (in
\*             schedule.run_pending, between two jobs) or "job" (in a job
\*             that run_pending called)
\*   due       the jobs whose time has come since run_pending last looked
\*   pending   the jobs the current run_pending still has to call
\*   running   the jobs that were called and have not returned
Idle == [pc |-> "sleep", due |-> {}, pending |-> {}, running |-> {}]

\* The times of day of the model: midnight and one other.
Tods == {0, 1}

\* The state an operation starts from.
Enter ==
    [cache |-> rate_cache, lru |-> lru, lkr |-> last_known_rate, trace |-> <<>>,
     fc |-> fetchCount, first |-> firstResult, cc |-> callCount,
     file |-> failed_file, last_rate |-> last_rate, lss |-> last_successful_send,
     lmr |-> last_monthly_report, sent |-> <<>>, acks |-> <<>>,
     saved |-> <<>>, last_saved |-> last_saved]

\* Write back the state an operation ends in.
Finish(s, c) ==
    /\ rate_cache' = s.cache
    /\ lru' = s.lru
    /\ last_known_rate' = s.lkr
    /\ last_rate' = s.last_rate
    /\ last_successful_send' = s.lss
    /\ last_monthly_report' = s.lmr
    /\ failed_file' = s.file
    /\ sent' = s.sent
    /\ saved' = s.saved
    /\ last_saved' = s.last_saved
    /\ trace' = s.trace
    /\ fetchCount' = s.fc
    /\ firstResult' = s.first
    /\ callCount' = s.cc
    /\ call' = c
    /\ ncalls' = ncalls + 1
    /\ UNCHANGED <<policy, today>>

\* An operation called on its own ends: the scheduler is not involved.
Leave(s, c) == Finish(s, c) /\ UNCHANGED sched

CallRecord(op, d, tod, ret, raised) ==
    [op |-> op, day |-> d, tod |-> tod, now |-> today, ret |-> ret,
     raised |-> raised, before |-> rate_cache, file |-> failed_file,
     lss |-> last_successful_send, last_rate |-> last_rate]

\* CurrencyService() of policy pol constructed on day d.
Started(pol, d) ==
    /\ policy = pol
    /\ today = d
    /\ rate_cache = Empty
    /\ lru = <<>>
    /\ last_known_rate = None
    /\ last_rate = None
    /\ last_successful_send = <<>>
    /\ last_monthly_report = <<>>
    /\ failed_file = <<>>
    /\ sent = <<>>
    /\ saved = <<>>
    /\ last_saved = <<>>
    /\ call = [op |-> "init", day |-> d, tod |-> 0, now |-> d,
               ret |-> None, raised |-> FALSE, before |-> Empty, file |-> <<>>,
               lss |-> <<>>, last_rate |-> None]
    /\ trace = <<>>
    /\ fetchCount = Empty
    /\ firstResult = Empty
    /\ callCount = Empty
    /\ ncalls = 0
    /\ sched = Idle

\* CurrencyService() of src/vk-teams-bot-exchange-rate-2.py constructed on
\* day d.
Fresh(d) == Started("last day", d)

\* Midnight passes (the model's clock stops at day last).
NextDay(last) ==
    /\ today < last
    /\ today' = today + 1
    /\ UNCHANGED <<policy, rate_cache, lru, last_known_rate, last_rate,
                   last_successful_send, last_monthly_report, failed_file, sent, saved,
                   last_saved, call, trace, fetchCount, firstResult, callCount, ncalls,
                   sched>>

\* One call get_rate(datetime d, tod) whose request, if any, has outcome o.
GetRate(d, tod, o) ==
    \E r \in {get_rate(Enter, <<d, tod>>, today, ConstResp(o))} :
        Leave(r.s, CallRecord("get_rate", d, tod, r.ret, r.raised))

PrevWorkday(d, tod, resp) ==
    \E r \in {get_previous_workday_rate(Enter, <<d, tod>>, today, resp)} :
        Leave(r.s, CallRecord("prev_workday", d, tod, r.ret, FALSE))

LastAvailable(d, tod, resp) ==
    \E r \in {get_last_available_rate(Enter, <<d, tod>>, today, resp)} :
        Leave(r.s, CallRecord("last_available", d, tod, r.ret, FALSE))

\* calculate_monthly_stats(ym[1], ym[2]); the record of the call keeps the
\* first day of the month as its day.
MonthlyStats(ym, resp) ==
    \E r \in {calculate_monthly_stats(Enter, ym[1], ym[2], today, resp)} :
        Leave(r.s, CallRecord("monthly_stats", ToOrdinal(ym[1], ym[2], 1), 0, r.ret, FALSE))

\* The 08:00 job: send_daily_report at the time of day tod, with the reply
\* table resp and the results acks of its send_to_chat calls.
DailyReport(tod, resp, acks) ==
    \E r \in {send_daily_report([Enter EXCEPT !.acks = acks], <<today, tod>>, resp)} :
        Leave(r.s, CallRecord("daily_report", today, tod, r.ret, FALSE))

\* The daily job of the first-day policy.
DailyReportFirstDay(tod, resp, acks) ==
    \E r \in {first_day_send_daily_report([Enter EXCEPT !.acks = acks], <<today, tod>>, resp)} :
        Leave(r.s, CallRecord("daily_report", today, tod, r.ret, FALSE))

\* calculate_monthly_stats(ym[1], ym[2]) of the monthly test report.
TestMonthlyStats(ym, resp) ==
    \E r \in {test_calculate_monthly_stats(Enter, ym[1], ym[2], resp)} :
        Leave(r.s, CallRecord("test_monthly_stats", ToOrdinal(ym[1], ym[2], 1), 0, r.ret,
                              FALSE))

\* The 10:00 job: retry_failed_message, whose send_to_chat call, if any,
\* has result ack.
RetryFailed(tod, ack) ==
    \E r \in {retry_failed_message([Enter EXCEPT !.acks = <<ack>>])} :
        Leave(r.s, CallRecord("retry", today, tod, r.ret, FALSE))

----------------------------------------------------------------------------
(* The service as a whole: Spec.  It is started on 2025-02-27 and runs     *)
(* into the last day of February; every operation of CurrencyService may   *)
(* be the next one.                                                        *)

ServiceStart == ToOrdinal(2025, 2, 27)

\* What the rate source answers during one operation on the current date.
ServiceReplies == RepliesOn((today - 2) .. today, MaxReported)

\* Every send_to_chat call of an operation succeeds, or every one fails.
ServiceAcks == {[i \in 1 .. MaxSends |-> b] : b \in BOOLEAN}

Init == Fresh(ServiceStart)

Next ==
    \/ ncalls < MaxOps /\ \E d \in (today - 1) .. today, tod \in Tods, o \in Outcomes :
            GetRate(d, tod, o)
    \/ ncalls < MaxOps /\ \E tod \in Tods, resp \in ServiceReplies :
            PrevWorkday(today, tod, resp)
    \/ ncalls < MaxOps /\ \E tod \in Tods, resp \in ServiceReplies :
            LastAvailable(today, tod, resp)
    \/ ncalls < MaxOps /\ \E resp \in ServiceReplies :
            MonthlyStats(<<YearOf(today), MonthOf(today)>>, resp)
    \/ ncalls < MaxOps /\ \E tod \in Tods, resp \in ServiceReplies, acks \in ServiceAcks :
            DailyReport(tod, resp, acks)
    \/ ncalls < MaxOps /\ \E tod \in Tods, ack \in BOOLEAN : RetryFailed(tod, ack)
    \/ NextDay(ServiceStart + 1)

Spec == Init /\ [][Next]_vars

----------------------------------------------------------------------------
(* The two scheduled jobs on their own: SpecDelivery.  The service is      *)
(* started on 2025-02-27 and runs into the last day of February; the       *)
(* 08:00 job and the 10:00 job run in any order and any number of times,   *)
(* and every send_to_chat call may succeed or fail on its own.             *)

\* datetime.now() of a scheduled job: a time of day (microseconds
\* included) that is not midnight and that no earlier job ran at.
JobTod == ncalls + 1

\* The payload values of SpecDelivery: 89.00004, 90.00004, 90.12344 and
\* 90.50004, which round to rates 1.0000, 1.1234, 1.5000 and less apart.
ReportValues == {8900004, 9000004, 9012344, 9050004}

\* The rate source answers for the current date, with any of these
\* values, and for the day before, with the first of them, or not at all.
DeliveryReplies ==
    {[d \in Window |-> IF d = today THEN o1 ELSE IF d = today - 1 THEN o0 ELSE STATUS] :
        o1 \in {STATUS} \cup ReportValues, o0 \in {STATUS, 8900004}}

\* The results of the send_to_chat calls of one send_daily_report: the
\* primary send fails and the alert goes either way, or the primary send
\* succeeds and each monthly send goes either way.
Acks == {a \in [1 .. MaxSends -> BOOLEAN] : a[1] \/ (a[3] /\ a[4])}

InitDelivery == Fresh(ServiceStart)

NextDelivery ==
    \/ ncalls < MaxReports /\ \E resp \in DeliveryReplies, acks \in Acks :
            DailyReport(JobTod, resp, acks)
    \/ ncalls < MaxJobs /\ \E ack \in BOOLEAN : RetryFailed(JobTod, ack)
    \/ NextDay(ServiceStart + 1)

SpecDelivery == InitDelivery /\ [][NextDelivery]_vars

----------------------------------------------------------------------------
(* The scheduler thread: SpecScheduler.  run_scheduler registers the 08:00 *)
(* job, the 10:00 job and the keep-alive job and then loops over           *)
(* schedule.run_pending() and time.sleep(60); it is the target of the one  *)
(* thread the module starts.  run_pending calls the jobs that are due one  *)
(* after another on the thread that called it.                             *)

Jobs == {"daily_report", "retry", "keep_alive"}

\* The clock reaches the time job is scheduled for.
ComesDue(job) ==
    /\ ncalls < MaxJobs
    /\ job \notin sched.due
    /\ sched' = [sched EXCEPT !.due = @ \cup {job}]
    /\ UNCHANGED serviceVars

\* time.sleep(60) returns and schedule.run_pending() collects the due jobs.
RunPending ==
    /\ sched.pc = "sleep"
    /\ sched.due # {}
    /\ sched' = [sched EXCEPT !.pc = "run_pending", !.pending = sched.due, !.due = {}]
    /\ UNCHANGED serviceVars

\* BeginJob running the job on a thread of its own.
BeginJob_thread(job) ==
    /\ sched.pc = "run_pending"
    /\ job \in sched.pending
    /\ ncalls < MaxJobs
    /\ sched' = [sched EXCEPT !.pending = @ \ {job}, !.running = @ \cup {job}]
    /\ UNCHANGED serviceVars

\* run_pending calls the next job, on the scheduler thread.
BeginJob(job) ==
    /\ sched.pc = "run_pending"
    /\ job \in sched.pending
    /\ ncalls < MaxJobs
    /\ sched' = [sched EXCEPT !.pc = "job", !.pending = @ \ {job}, !.running = @ \cup {job}]
    /\ UNCHANGED serviceVars

\* The job returns to run_pending.
Returned(job) == sched' = [sched EXCEPT !.pc = "run_pending", !.running = @ \ {job}]

\* What the rate source answers and what send_to_chat returns during one
\* job of SpecScheduler.
SchedulerReplies ==
    {[d \in Window |-> IF d = today THEN o1 ELSE IF d = today - 1 THEN 8900004 ELSE STATUS] :
        o1 \in {STATUS, 9000004}}

\* send_daily_report runs and returns.
EndDailyReport ==
    /\ "daily_report" \in sched.running
    /\ \E resp \in SchedulerReplies, acks \in ServiceAcks :
        \E r \in {send_daily_report([Enter EXCEPT !.acks = acks], <<today, JobTod>>, resp)} :
            Finish(r.s, CallRecord("daily_report", today, JobTod, r.ret, FALSE))
    /\ Returned("daily_report")

\* retry_failed_message runs and returns.
EndRetry ==
    /\ "retry" \in sched.running
    /\ \E ack \in BOOLEAN :
        \E r \in {retry_failed_message([Enter EXCEPT !.acks = <<ack>>])} :
            Finish(r.s, CallRecord("retry", today, JobTod, r.ret, FALSE))
    /\ Returned("retry")

\* The keep-alive job (a logger.info call) runs and returns.
EndKeepAlive ==
    /\ "keep_alive" \in sched.running
    /\ Finish(Enter, CallRecord("keep_alive", today, JobTod, FALSE, FALSE))
    /\ Returned("keep_alive")

\* run_pending has called every job it collected; time.sleep(60).
Sleep ==
    /\ sched.pc = "run_pending"
    /\ sched.pending = {}
    /\ sched' = [sched EXCEPT !.pc = "sleep"]
    /\ UNCHANGED serviceVars

InitScheduler == Fresh(ServiceStart)

NextScheduler ==
    \/ \E job \in Jobs : ComesDue(job)
    \/ RunPending
    \/ \E job \in Jobs : BeginJob(job)
    \/ EndDailyReport
    \/ EndRetry
    \/ EndKeepAlive
    \/ Sleep
    \/ NextDay(ServiceStart + 1)

SpecScheduler == InitScheduler /\ [][NextScheduler]_vars

----------------------------------------------------------------------------
(* The monthly test report at the boundary year: SpecBoundary.  Its        *)
(* calculate_monthly_stats is called for January 2024, the first month of  *)
(* the boundary year, while the archive answers for at most MaxOps of the  *)
(* days of 2023-12-31 .. 2024-01-31.                                       *)

BoundaryMonths == {<<2024, 1>>}

BoundaryReplies ==
    {[d \in BoundaryDays |-> IF d \in A THEN 8900004 ELSE STATUS] :
        A \in UpTo(BoundaryDays \ {ToOrdinal(2023, 12, 30)}, MaxOps)}

InitBoundary == Started("test", ToOrdinal(2025, 3, 1))

NextBoundary ==
    /\ call.op = "init"
    /\ \E ym \in BoundaryMonths, resp \in BoundaryReplies : TestMonthlyStats(ym, resp)

SpecBoundary == InitBoundary /\ [][NextBoundary]_vars

----------------------------------------------------------------------------
(* The daily report under either policy: SpecPolicies.  The service is     *)
(* started on 2025-02-27 and runs into 2025-03-01, so that it sees an      *)
(* ordinary day, the last day of a month and the first day of the next.    *)

Policies == {"last day", "first day"}

\* The results of the send_to_chat calls of one send_daily_report of the
\* first-day policy, which makes up to four of them whatever they return.
FirstDayAcks == [1 .. MaxSends -> BOOLEAN]

InitPolicies == \E pol \in Policies : Started(pol, ServiceStart)

NextPolicies ==
    \/ /\ policy = "last day"
       /\ ncalls < MaxReports
       /\ \E resp \in DeliveryReplies, acks \in Acks : DailyReport(JobTod, resp, acks)
    \/ /\ policy = "first day"
       /\ ncalls < MaxReports
       /\ \E resp \in DeliveryReplies, acks \in FirstDayAcks :
                DailyReportFirstDay(JobTod, resp, acks)
    \/ NextDay(ServiceStart + 2)

SpecPolicies == InitPolicies /\ [][NextPolicies]_vars

----------------------------------------------------------------------------
(* The resolver on its own: SpecResolver.  The service is started on       *)
(* 2024-12-31, the last day before MIN_YEAR.                               *)

FirstToday == ToOrdinal(2024, 12, 31)

InitResolver == Fresh(FirstToday)

\* The days SpecResolver calls get_rate for: 2024-12-30 .. 2025-01-02.
ResolverDays == (FirstToday - 1) .. (FirstToday + 2)

NextResolver ==
    \/ ncalls < MaxCalls /\ \E d \in ResolverDays, tod \in Tods, o \in Outcomes :
            GetRate(d, tod, o)
    \/ NextDay(FirstToday + 1)

SpecResolver == InitResolver /\ [][NextResolver]_vars

----------------------------------------------------------------------------
(* The backward searches on their own: SpecFallback.  The first search     *)
(* date is Sunday 2025-01-05, so that the window of a search reaches back  *)
(* into 2024.                                                              *)

FallbackFirst == ToOrdinal(2025, 1, 5)
FallbackLast == FallbackFirst + 1
FallbackWindow == (FallbackFirst - 8) .. FallbackLast

FallbackReplies == Replies(FallbackWindow)

InitFallback == Fresh(FallbackFirst)

\* No search or aggregation has been made yet.
Warming == call.op \in {"init", "get_rate"}

\* A get_rate call made before the search (by an earlier operation).
WarmUp(d, tod, o) ==
    /\ Warming
    /\ ncalls < MaxWarm
    /\ GetRate(d, tod, o)

NextFallback ==
    \/ \E d \in FallbackWindow, tod \in Tods, o \in Outcomes : WarmUp(d, tod, o)
    \/ Warming /\ \E d \in FallbackFirst .. today, tod \in Tods, resp \in FallbackReplies :
            PrevWorkday(d, tod, resp)
    \/ Warming /\ \E d \in FallbackFirst .. today, tod \in Tods, resp \in FallbackReplies :
            LastAvailable(d, tod, resp)
    \/ NextDay(FallbackLast)

SpecFallback == InitFallback /\ [][NextFallback]_vars

----------------------------------------------------------------------------
(* The monthly aggregation on its own: SpecMonthly.  The service runs on   *)
(* the last day of January or of February 2025 and aggregates December     *)
(* 2024, January 2025 or February 2025.                                    *)

MonthlyTodays == {ToOrdinal(2025, 1, 31), ToOrdinal(2025, 2, 28)}
Months == {<<2024, 12>>, <<2025, 1>>, <<2025, 2>>}

\* The days of month ym and the last day of the month before.
MonthDays(ym) ==
    (ToOrdinal(ym[1], ym[2], 1) - 1) .. ToOrdinal(ym[1], ym[2], monthrange(ym[1], ym[2]))

MonthlyReplies == [ym \in Months |-> Replies(MonthDays(ym))]

\* The days get_rate is called for before an aggregation: around the start
\* of January and of February 2025 and around the end of February.
MonthlyWarmDays ==
    (ToOrdinal(2025, 1, 1) - 1) .. (ToOrdinal(2025, 1, 1) + 1)
        \cup (ToOrdinal(2025, 2, 1) - 1) .. (ToOrdinal(2025, 2, 1) + 1)
        \cup (ToOrdinal(2025, 2, 28) - 1) .. ToOrdinal(2025, 2, 28)

InitMonthly == \E d \in MonthlyTodays : Fresh(d)

NextMonthly ==
    \/ \E d \in MonthlyWarmDays, tod \in Tods, o \in Outcomes : WarmUp(d, tod, o)
    \/ Warming /\ \E ym \in Months : \E resp \in MonthlyReplies[ym] : MonthlyStats(ym, resp)

SpecMonthly == InitMonthly /\ [][NextMonthly]_vars

----------------------------------------------------------------------------
(* Properties of the resolver, checked under SpecResolver.                 *)

Requests == {i \in 1 .. Len(trace) : trace[i].ev \in {"live", "archive"}}

FetchCountOf(d) == IF d \in DOMAIN fetchCount THEN fetchCount[d] ELSE 0

\* C1: a get_rate call for a day that rate_cache already holds returns the
\* cached rate and makes no request, whatever calls came before.
C1_CachedRateReturned ==
    (call.op = "get_rate" /\ call.day \in DOMAIN call.before)
        => (call.ret = call.before[call.day] /\ Requests = {})

\* C2 as claimed: the second get_rate call for a day returns what the first
\* returned, and exactly one request was made for that day by then.  Stated
\* for the days of MIN_YEAR and later, the days a request can be made for
\* on any date.
C2_SecondCallSameResultOneFetch ==
    (call.op = "get_rate" /\ YearOf(call.day) >= MIN_YEAR /\ callCount[call.day] = 2)
        => (call.ret = firstResult[call.day] /\ FetchCountOf(call.day) = 1)

\* C2 as amended: when the first get_rate call for a day returned a rate,
\* every later call for that day returns that same rate, and exactly one
\* request has been made for the day.
C2_ResolvedDayMemoized ==
    \A d \in DOMAIN firstResult :
        firstResult[d] # None =>
            /\ FetchCountOf(d) = 1
            /\ (call.op = "get_rate" /\ call.day = d) => call.ret = firstResult[d]

\* A later get_rate call for a day whose first call returned a rate.
C2_Witness ==
    /\ call.op = "get_rate"
    /\ callCount[call.day] >= 2
    /\ firstResult[call.day] # None
    /\ call.ret = firstResult[call.day]

\* C3 as claimed: a get_rate call for a day of a year below MIN_YEAR returns
\* None and makes no request, also when the day is the current date.
C3_BelowMinYearNeverFetched ==
    (call.op = "get_rate" /\ YearOf(call.day) < MIN_YEAR)
        => (call.ret = None /\ Requests = {})

\* C3 as amended: a get_rate call for a day of a year below MIN_YEAR that is
\* not the current date makes no request, and returns None whenever
\* rate_cache holds no rate for the day.
C3_PastBelowMinYearNotFetched ==
    (call.op = "get_rate" /\ YearOf(call.day) < MIN_YEAR /\ call.day # call.now)
        => /\ Requests = {}
           /\ call.day \notin DOMAIN call.before => call.ret = None

\* A get_rate call for a past day of a year below MIN_YEAR, made after some
\* other day has got a rate.
C3_Witness ==
    /\ call.op = "get_rate"
    /\ YearOf(call.day) < MIN_YEAR
    /\ call.day # call.now
    /\ call.day \notin DOMAIN call.before
    /\ call.ret = None
    /\ rate_cache # Empty

\* C4: when the request of a get_rate call fails (exception, status other
\* than 200, malformed payload) the call returns None, raises nothing and
\* leaves rate_cache as it was.
C4_FailedFetchIsAbsent ==
    (call.op = "get_rate" /\ \E i \in Requests : trace[i].ret \in Failures)
        => (call.ret = None /\ ~call.raised /\ rate_cache = call.before)

\* A get_rate call whose request brought a malformed payload, made while
\* rate_cache already held a rate.
C4_Witness ==
    /\ call.op = "get_rate"
    /\ \E i \in Requests : trace[i].ret = MALFORMED
    /\ call.before # Empty
    /\ call.ret = None

----------------------------------------------------------------------------
(* Properties of the backward searches, checked under SpecFallback.        *)

IsCall(e) == e.ev = "call"

\* The get_rate calls of the last operation, in order.
Calls == SelectSeq(trace, IsCall)

\* The calendar days the last operation called get_rate for.
ConsultedDays == {Calls[i].day : i \in 1 .. Len(Calls)}

\* C6 as claimed: a search that returns None has called get_rate for at
\* most 7 distinct calendar days.
C6_AtMostSevenDays ==
    (call.op \in {"prev_workday", "last_available"} /\ call.ret = None)
        => Cardinality(ConsultedDays) <= 7

\* C6 as amended: get_previous_workday_rate(d) calls get_rate for days of
\* d-7 .. d-1 only, at most 7 distinct days; get_last_available_rate(d)
\* calls it for days of d-7 .. d only, at most 8 distinct days; a search
\* that returns None has called it for all of them.
C6_LookbackBounded ==
    /\ call.op = "prev_workday" =>
            /\ ConsultedDays \subseteq (call.day - 7) .. (call.day - 1)
            /\ call.ret = None => Cardinality(ConsultedDays) = 7
    /\ call.op = "last_available" =>
            /\ ConsultedDays \subseteq (call.day - 7) .. call.day
            /\ call.ret = None => Cardinality(ConsultedDays) = 8

\* A get_last_available_rate that found nothing after it called get_rate
\* for 8 days, made after an earlier get_rate call stored a rate.
C6_Witness ==
    /\ call.op = "last_available"
    /\ call.ret = None
    /\ Cardinality(ConsultedDays) = 8
    /\ rate_cache # Empty

\* C7: get_previous_workday_rate(d) calls get_rate for d-1, d-2, .. in this
\* order, at most 7 times, stops at the first call that returns a rate and
\* returns that rate; it returns None exactly when all 7 calls returned
\* None.  So the result is the rate of the nearest day of d-1 .. d-7 that
\* resolves, never that of an older day or of d itself.
C7_NearestPreviousDay ==
    call.op = "prev_workday" =>
        LET n == Len(Calls) IN
        /\ n \in 1 .. 7
        /\ \A k \in 1 .. n : Calls[k].day = call.day - k /\ Calls[k].tod = call.tod
        /\ \A k \in 1 .. n - 1 : Calls[k].ret = None
        /\ call.ret = Calls[n].ret
        /\ call.ret = None => n = 7

\* A search that passed over an unresolved nearer day and stopped at a
\* resolved day while an older day holds a rate too.
C7_Witness ==
    /\ call.op = "prev_workday"
    /\ call.ret # None
    /\ Len(Calls) \in 2 .. 6
    /\ \E d \in DOMAIN rate_cache : d < Calls[Len(Calls)].day /\ d >= call.day - 7

\* C8: get_last_available_rate for a Sunday whose own get_rate call returns
\* None and whose Saturday resolves returns the Saturday rate after these
\* two calls: no earlier day is consulted.
C8_SundayTakesSaturday ==
    (/\ call.op = "last_available"
     /\ weekday(call.day) = 6
     /\ \E i \in 1 .. Len(Calls) : Calls[i].day = call.day /\ Calls[i].ret = None
     /\ \E i \in 1 .. Len(Calls) : Calls[i].day = call.day - 1 /\ Calls[i].ret # None)
        => /\ Len(Calls) = 2
           /\ ConsultedDays = {call.day, call.day - 1}
           /\ call.ret = Calls[2].ret
           /\ Calls[2].day = call.day - 1

\* A Sunday search that stopped at the Saturday.
C8_Witness ==
    /\ call.op = "last_available"
    /\ weekday(call.day) = 6
    /\ Len(Calls) = 2
    /\ Calls[1].ret = None
    /\ call.ret # None
    /\ call.ret = rate_cache[call.day - 1]

----------------------------------------------------------------------------
(* Properties of the monthly aggregation, checked under SpecMonthly.       *)

\* The number of days of the month the last calculate_monthly_stats was
\* called for.
DaysInMonth == monthrange(YearOf(call.day), MonthOf(call.day))

\* calculate_monthly_stats got past its year test: its first get_rate call
\* is for the last day of the month before, its next DaysInMonth calls
\* are for the days of the month.
Aggregated == call.op = "monthly_stats" /\ Len(Calls) > DaysInMonth

\* What get_rate returned for the last day of the month before.
CarryIn == Calls[1].ret

\* The days of the month (1 .. DaysInMonth) whose get_rate call in the day
\* loop returned a rate.
ResolvedDays == {k \in 1 .. DaysInMonth : Calls[1 + k].ret # None}

\* C9: when calculate_monthly_stats returns stats and at least one day of
\* the month resolves, days_count is the number of days of the month.
C9_DaysCountIsMonthLength ==
    (Aggregated /\ call.ret.ok /\ ResolvedDays # {})
        => call.ret.days_count = DaysInMonth

\* C10 as claimed: calculate_monthly_stats returns None whenever no day of
\* the month resolves, whether or not the last day of the month before
\* resolves.
C10_NoResolvedDayIsAbsent ==
    (Aggregated /\ ResolvedDays = {}) => ~call.ret.ok

\* C10 as amended: when no day of the month resolves,
\* calculate_monthly_stats returns None exactly when the last day of the
\* month before does not resolve either; when that day resolves it returns
\* stats in which every day of the month carries its rate.
C10_AbsentWithoutCarry ==
    (Aggregated /\ ResolvedDays = {})
        => /\ call.ret.ok <=> CarryIn # None
           /\ call.ret.ok =>
                /\ call.ret.days_count = DaysInMonth
                /\ call.ret.workdays_count = 0
                /\ \A i \in 1 .. DaysInMonth : call.ret.all_rates[i] = CarryIn

\* An aggregation in which neither a day of the month nor the last day of
\* the month before resolved, made while rate_cache held a rate.
C10_Witness ==
    /\ Aggregated
    /\ ResolvedDays = {}
    /\ CarryIn = None
    /\ ~call.ret.ok
    /\ rate_cache # Empty

\* The day whose rate day k of the month carries, given the set R of the
\* resolved days of the month: the latest resolved day at or before k, or
\* 0 (the last day of the month before) when there is none.
SourceDay(R, k) ==
    IF \E j \in R : j <= k
    THEN CHOOSE j \in R : j <= k /\ \A i \in R : i <= k => i <= j
    ELSE 0

\* The i-th smallest element of a set of numbers.
Nth(S, i) == CHOOSE x \in S : Cardinality({y \in S : y < x}) = i - 1

\* The series stats were computed from the get_rate calls c of an
\* aggregation over a month of n days: fill[k] is the rate day k
\* contributes to the all-days series (None when it contributes nothing).
SeriesFollow(stats, c, n) ==
    \A R \in {{k \in 1 .. n : c[1 + k].ret # None}} :
    \A fill \in {[k \in 1 .. n |-> c[1 + SourceDay(R, k)].ret]} :
    \A C \in {{k \in 1 .. n : fill[k] # None}} :
        /\ stats.ok <=> C # {}
        /\ Len(stats.all_rates) = Cardinality(C)
        /\ \A i \in 1 .. Len(stats.all_rates) : stats.all_rates[i] = fill[Nth(C, i)]
        /\ stats.ok =>
                /\ Len(stats.workday_rates) = Cardinality(R)
                /\ \A i \in 1 .. Len(stats.workday_rates) :
                        stats.workday_rates[i] = c[1 + Nth(R, i)].ret

\* C11: the all-days series has one element for each day of the month
\* that resolved or has a carry, in day order: the rate of the latest
\* resolved day at or before it, or the rate of the last day of the month
\* before when no day up to it resolved; a day with neither resolution nor
\* carry contributes nothing.  The resolved-only series holds the rates of
\* the resolved days, in day order.
C11_SeriesCarryForward ==
    Aggregated => \A c \in {Calls} : SeriesFollow(call.ret, c, DaysInMonth)

\* An aggregation with two resolved days, none of them day 1, and no
\* carry from the month before: the days before the first resolved day
\* contribute nothing, the days after it carry.
C11_Witness ==
    /\ Aggregated
    /\ call.ret.ok
    /\ CarryIn = None
    /\ Cardinality(ResolvedDays) = 2
    /\ 1 \notin ResolvedDays
    /\ Len(call.ret.all_rates) > 2
    /\ Len(call.ret.all_rates) < DaysInMonth

\* C12: when day 1 is the only day of the month that resolves,
\* calculate_monthly_stats returns days_count = the number of days of the
\* month, avg_rate = last_rate = min_rate = max_rate = the rate of day 1,
\* range = 0 and the trend "flat".
C12_OnlyFirstDayResolves ==
    (Aggregated /\ ResolvedDays = {1}) =>
        /\ call.ret.ok
        /\ call.ret.days_count = DaysInMonth
        /\ call.ret.avg_rate = Calls[2].ret
        /\ call.ret.last_rate = Calls[2].ret
        /\ call.ret.min_rate = Calls[2].ret
        /\ call.ret.max_rate = Calls[2].ret
        /\ call.ret.range = 0
        /\ call.ret.trend = "flat"

\* Such an aggregation, one in which the last day of the month before
\* resolved too.
C12_Witness ==
    /\ Aggregated
    /\ ResolvedDays = {1}
    /\ CarryIn # None
    /\ call.ret.ok
    /\ call.ret.days_count = DaysInMonth

\* What the get_rate calls of the last operation returned for day d (one
\* value: get_rate is memoized by its midnight datetime during an
\* aggregation).
Yielded(d) == {Calls[i].ret : i \in {j \in 1 .. Len(Calls) : Calls[j].day = d}}

\* C27: whenever calculate_monthly_stats returns stats, last_rate is the
\* rate get_rate returned for last_available_date.
C27_LastRateIsRateOfLastDate ==
    (Aggregated /\ call.ret.ok) =>
        Yielded(call.ret.last_available_date) = {call.ret.last_rate}

\* C28: the stats calculate_monthly_stats returns are consistent with one
\* another: workdays_count <= days_count <= the number of days of the
\* month, min_rate <= avg_rate <= max_rate, min_rate <= last_rate <=
\* max_rate, and range = max_rate - min_rate (rates are 4-decimal
\* fixed-point numbers).
C28_StatsConsistent ==
    (Aggregated /\ call.ret.ok) =>
        /\ call.ret.workdays_count <= call.ret.days_count
        /\ call.ret.days_count <= DaysInMonth
        /\ call.ret.min_rate <= call.ret.avg_rate
        /\ call.ret.avg_rate <= call.ret.max_rate
        /\ call.ret.min_rate <= call.ret.last_rate
        /\ call.ret.last_rate <= call.ret.max_rate
        /\ call.ret.range = call.ret.max_rate - call.ret.min_rate

\* Stats over two different rates, the higher one first, with an average
\* strictly between them and with days that contribute nothing.
C28_Witness ==
    /\ Aggregated
    /\ call.ret.ok
    /\ call.ret.all_rates[1] = call.ret.max_rate
    /\ call.ret.min_rate < call.ret.avg_rate
    /\ call.ret.avg_rate < call.ret.max_rate
    /\ call.ret.workdays_count < call.ret.days_count
    /\ call.ret.days_count < DaysInMonth

----------------------------------------------------------------------------
(* Properties of the scheduled jobs, checked under SpecDelivery.           *)

\* The last operation was a send_daily_report / a retry_failed_message.
Report == call.op = "daily_report"
Retry == call.op = "retry"

\* A report calls get_rate(today) first and get_previous_workday_rate(today)
\* next: RefIndex is the number of get_rate calls of that search.
RefIndex ==
    CHOOSE k \in 1 .. 7 :
        /\ Calls[1 + k].ret # None \/ k = 7
        /\ \A j \in 1 .. k - 1 : Calls[1 + j].ret = None

\* prev_rate of the report.
Reference == Calls[1 + RefIndex].ret

\* current_rate of the report: what get_rate(today) returned or, when that
\* is None on the last day of a month, what get_last_available_rate(today)
\* returned (the first rate among its get_rate calls, which follow those
\* of get_previous_workday_rate).
Current ==
    IF Calls[1].ret # None THEN Calls[1].ret
    ELSE IF ~is_last_day_of_month(call.day) THEN None
    ELSE IF \E i \in (2 + RefIndex) .. Len(Calls) : Calls[i].ret # None
    THEN Calls[CHOOSE i \in (2 + RefIndex) .. Len(Calls) :
                    /\ Calls[i].ret # None
                    /\ \A j \in (2 + RefIndex) .. i - 1 : Calls[j].ret = None].ret
    ELSE None

\* The report ended at line 302: a rate is missing.
NoData == Current = None \/ Reference = None

\* The report composed its message and called send_to_chat with it.
Composed == Report /\ sent # <<>>

\* The primary send of the report failed / succeeded.
PrimaryFailed == Composed /\ ~sent[1].ok
PrimarySent == Composed /\ sent[1].ok

\* C13: the message of a daily report carries the jump annotation exactly
\* when abs(current_rate - prev_rate) >= 1.0, the value 1.0 included (rates
\* are 4-decimal fixed-point numbers: 1.0 is 10000).
C13_JumpAtOneOrMore ==
    Composed =>
        /\ sent[1].text.rate = Fmt4(Current)
        /\ sent[1].text.jump <=> (Abs(Current - Reference) >= 10000)

\* A message for a change of exactly 1.0000, with the annotation.
C13_Witness ==
    /\ Composed
    /\ Abs(Current - Reference) = 10000
    /\ sent[1].text.jump

\* C14: last_failed_message.txt holds at most one text, and when it holds
\* one, it is the text of the latest write.
C14_SingleSlotLastSave ==
    /\ Len(failed_file) <= 1
    /\ failed_file # <<>> => failed_file = last_saved

\* A report that wrote its text over a different pending text.
C14_Witness ==
    /\ Report
    /\ call.file # <<>>
    /\ saved # <<>>
    /\ call.file[1] # saved[1]
    /\ failed_file = <<saved[1]>>

\* C15: retry_failed_message returns True exactly when the file existed and
\* the send of its text succeeded, and then the file is gone; without a
\* file it sends nothing and returns False; when the send fails it returns
\* False and the file is left with its text.
C15_RetryContract ==
    Retry =>
        /\ call.ret <=> (call.file # <<>> /\ Len(sent) = 1 /\ sent[1].ok)
        /\ call.file = <<>> => (sent = <<>> /\ failed_file = <<>>)
        /\ call.file # <<>> => (Len(sent) = 1 /\ sent[1].text = call.file[1])
        /\ call.ret => failed_file = <<>>
        /\ (call.file # <<>> /\ ~call.ret) => failed_file = call.file
        /\ saved = <<>>

\* The third job of the service, a retry that delivered the pending text.
C15_Witness ==
    /\ Retry
    /\ ncalls >= 3
    /\ call.file # <<>>
    /\ call.ret
    /\ failed_file = <<>>

\* C16 (its safety half): a pending daily message leaves
\* last_failed_message.txt only in a step that delivers it.
C16_PendingKeptUntilDelivered ==
    [][(/\ failed_file # <<>>
        /\ failed_file[1].kind \in {"daily", "month end"}
        /\ failed_file' # failed_file)
            => \E i \in 1 .. Len(sent') : sent'[i].text = failed_file[1] /\ sent'[i].ok]_vars

\* C17 as claimed: only a failed primary send writes the file; a report
\* that ends because a rate is missing sends nothing and leaves the file
\* as it was; failed monthly sends leave it as it was.
C17_WrittenOnlyOnFailedPrimary ==
    /\ saved # <<>> => PrimaryFailed
    /\ (Report /\ NoData) => (sent = <<>> /\ failed_file = call.file)
    /\ PrimarySent => failed_file = call.file

\* C17 as amended: the file is written by send_daily_report only, in two
\* cases: when a rate is missing, it sends nothing and writes the no-data
\* text; when the primary send fails, it writes the message.  A report
\* whose primary send succeeded leaves the file as it was, whatever the
\* monthly sends returned, and so does a report that skips an unchanged
\* rate.
C17_WrittenOnNoDataOrFailedPrimary ==
    /\ ~Report => saved = <<>>
    /\ Report =>
        /\ NoData => (sent = <<>> /\ saved = <<NoDataText>> /\ failed_file = <<NoDataText>>)
        /\ ~NoData => (saved # <<>> <=> PrimaryFailed)
        /\ PrimaryFailed => (saved = <<sent[1].text>> /\ failed_file = saved)
        /\ saved = <<>> => failed_file = call.file

\* A report whose primary send succeeded and whose second monthly send
\* failed, with a pending text left as it was.
C17_Witness ==
    /\ PrimarySent
    /\ Len(sent) = 4
    /\ ~sent[3].ok
    /\ call.file # <<>>
    /\ failed_file = call.file

\* C18 as claimed: when the primary send fails, the file afterwards holds
\* the alert text and the report returns False.
C18_AlertTextSaved ==
    PrimaryFailed => (failed_file = <<AlertText>> /\ ~call.ret)

\* C18 as amended: when the primary send fails, the report sends the alert
\* text, the file afterwards holds the text of the daily message (not the
\* alert), and the report returns False.
C18_MessageSavedAlertSent ==
    PrimaryFailed =>
        /\ Len(sent) = 2
        /\ sent[2].text = AlertText
        /\ failed_file = <<sent[1].text>>
        /\ failed_file # <<AlertText>>
        /\ ~call.ret

\* A failed primary send whose alert failed too.
C18_Witness ==
    /\ PrimaryFailed
    /\ Len(sent) = 2
    /\ ~sent[2].ok
    /\ failed_file = <<sent[1].text>>

\* C19: on the last day of a month, after the primary send succeeded, the
\* three monthly messages are all sent, in order, whatever each send
\* returned.
C19_AllThreeAttempted ==
    (PrimarySent /\ is_last_day_of_month(call.day)) =>
        /\ Len(sent) = 4
        /\ sent[2].text.kind = "bidease"
        /\ sent[3].text.kind = "average"
        /\ sent[4].text.kind = "analytics"

\* The first and the second monthly send failed and the third was made.
C19_Witness ==
    /\ PrimarySent
    /\ Len(sent) = 4
    /\ ~sent[2].ok
    /\ ~sent[3].ok
    /\ sent[4].ok

\* C20 as claimed: whenever current_rate equals prev_rate the report sends
\* nothing, returns False and leaves the file as it was.
C20_UnchangedNeverSent ==
    (Report /\ ~NoData /\ Current = Reference) =>
        (sent = <<>> /\ ~call.ret /\ failed_file = call.file)

\* C20 as amended: when current_rate equals prev_rate and the current date
\* is not the last day of its month, the report sends nothing, returns
\* False and leaves the file as it was; on the last day of a month the
\* end-of-month message is sent with the change "unchanged".
C20_UnchangedSkippedBeforeMonthEnd ==
    (Report /\ ~NoData /\ Current = Reference) =>
        IF is_last_day_of_month(call.day)
        THEN /\ Composed
             /\ sent[1].text.kind = "month end"
             /\ sent[1].text.change.marker = "unchanged"
        ELSE sent = <<>> /\ ~call.ret /\ failed_file = call.file /\ saved = <<>>

\* A report that skipped an unchanged rate while a text was pending.
C20_Witness ==
    /\ Report
    /\ ~NoData
    /\ Current = Reference
    /\ ~is_last_day_of_month(call.day)
    /\ sent = <<>>
    /\ call.file # <<>>
    /\ failed_file = call.file

\* C22: when get_rate(today) returns a rate c and the nearest day before
\* today that resolves (of the 7 days searched) has the rate p < c, the
\* report composes one daily message and passes it to send_to_chat; the
\* message shows c with four decimals and, as the change, the rising
\* marker, a plus sign and c - p with four decimals.
C22_RisingChangeShown ==
    (Report /\ Calls[1].ret # None /\ Reference # None /\ Calls[1].ret > Reference) =>
        /\ Composed
        /\ sent[1].text.kind \in {"daily", "month end"}
        /\ \A i \in 2 .. Len(sent) : sent[i].text.kind \notin {"daily", "month end"}
        /\ sent[1].text.date = call.day
        /\ sent[1].text.rate = Fmt4(Calls[1].ret)
        /\ sent[1].text.change =
                [marker |-> "rise", plus |-> TRUE, value |-> Fmt4(Calls[1].ret - Reference)]

\* The report of 90.1234 after 89.0000: the message shows 90.1234 and
\* +1.1234.
C22_Witness ==
    /\ Composed
    /\ Calls[1].ret = 901234
    /\ Reference = 890000
    /\ sent[1].text.rate = [neg |-> FALSE, whole |-> 90, frac |-> 1234]
    /\ sent[1].text.change.plus
    /\ sent[1].text.change.value = [neg |-> FALSE, whole |-> 1, frac |-> 1234]

\* C30: retry_failed_message never delivers the daily message composed
\* for a day after the daily message of a later day was delivered (the
\* day of the latest delivered daily message is that of
\* last_successful_send).
C30_RetryNeverDeliversOlderDay ==
    (Retry /\ call.ret /\ sent[1].text.kind \in {"daily", "month end"}) =>
        (call.lss = <<>> \/ call.lss[1] <= sent[1].text.date)

\* The calendar day whose rate is prev_rate of the report.
ReferenceDay == Calls[1 + RefIndex].day

\* The calendar day whose rate is current_rate of the report: the current
\* date, or the day get_last_available_rate stopped at.
CurrentDay ==
    IF Calls[1].ret # None THEN Calls[1].day
    ELSE Calls[CHOOSE i \in (2 + RefIndex) .. Len(Calls) :
                    /\ Calls[i].ret # None
                    /\ \A j \in (2 + RefIndex) .. i - 1 : Calls[j].ret = None].day

\* C26: whenever a report composes its message, prev_rate is the rate of a
\* calendar day strictly before the day whose rate is current_rate, also
\* when current_rate comes from get_last_available_rate(today) on the last
\* day of a month.
C26_ReferenceDayBeforeCurrentDay ==
    Composed => ReferenceDay < CurrentDay

----------------------------------------------------------------------------
(* Properties of the two policies, checked under SpecPolicies.             *)

MonthlyKinds == {"bidease", "average", "analytics"}

\* The send_to_chat calls of the last operation that carry a monthly
\* message.
MonthlySends == {i \in 1 .. Len(sent) : sent[i].text.kind \in MonthlyKinds}

\* The three monthly messages, in their order and no other monthly
\* message, were passed to send_to_chat, all about the month that begins
\* on day first.
MonthlyAttempted(first) ==
    /\ Cardinality(MonthlySends) = 3
    /\ \E i \in MonthlySends :
            /\ MonthlySends = {i, i + 1, i + 2}
            /\ sent[i].text.kind = "bidease"
            /\ sent[i + 1].text.kind = "average"
            /\ sent[i + 2].text.kind = "analytics"
    /\ \A i \in MonthlySends : sent[i].text.date = first

\* The first day of the month of day d, and of the month before.
FirstOfMonth(d) == ToOrdinal(YearOf(d), MonthOf(d), 1)
FirstOfMonthBefore(d) == FirstOfMonth(FirstOfMonth(d) - 1)

C29_SuccessOnlyWhenAcknowledged ==
    Report =>
        /\ call.ret => PrimarySent
        /\ (last_successful_send # call.lss \/ last_rate # call.last_rate) => PrimarySent
        /\ PrimaryFailed =>
                (last_successful_send = call.lss /\ last_rate = call.last_rate)

----------------------------------------------------------------------------
(* Properties of the monthly test report, checked under SpecBoundary.      *)

\* The get_rate calls get_last_available_rate made in the last operation.
SearchCalls == {i \in 1 .. Len(trace) : trace[i].ev \in {"search start", "search"}}

\* The search that made the get_rate call i made no further one: the next
\* get_rate call of a search, if any, is the first of another search.
EndsSearch(i) ==
    \A j \in SearchCalls :
        (j > i /\ \A k \in SearchCalls : ~(i < k /\ k < j)) => trace[j].ev = "search start"

----------------------------------------------------------------------------
(* Properties of the scheduler thread, checked under SpecScheduler.        *)

\* rate_cache, the lru_cache or last_failed_message.txt is written.
StoresChange ==
    rate_cache' # rate_cache \/ lru' # lru \/ failed_file' # failed_file

\* C24: at most one of the three jobs is in progress at any time, and
\* every step that writes rate_cache, the lru_cache or
\* last_failed_message.txt is the step of the one job in progress, which
\* returns before another job is called.
C24_OneJobAtATime ==
    [][/\ Cardinality(sched.running) <= 1
       /\ Cardinality(sched'.running) <= 1
       /\ StoresChange =>
            /\ Cardinality(sched.running) = 1
            /\ sched.running = {call'.op}
            /\ sched'.running = {}]_vars

\* The 10:00 job is in progress after the 08:00 job wrote
\* last_failed_message.txt, while the 08:00 job is due again.
C24_Witness ==
    /\ sched.running = {"retry"}
    /\ "daily_report" \in sched.due
    /\ call.op = "daily_report"
    /\ failed_file # <<>>

----------------------------------------------------------------------------
(* Properties of rate_cache over all operations, checked under Spec.       *)

\* C23: get_rate never answers None from memory.  A get_rate call that
\* returns None for a day a request can be made for (the current date, or a
\* day of MIN_YEAR or later) has made a request for that day in the same
\* operation; so a day whose request failed in an earlier get_rate call or
\* in an earlier calculate_monthly_stats is requested again.
C23_AbsentDayFetchedAgain ==
    call.op \in {"get_rate", "monthly_stats"} =>
        \A i \in 1 .. Len(trace) :
            (/\ trace[i].ev = "call"
             /\ trace[i].ret = None
             /\ (trace[i].day = call.now \/ YearOf(trace[i].day) >= MIN_YEAR))
                => \E j \in 1 .. i :
                        /\ trace[j].ev \in {"live", "archive"}
                        /\ trace[j].day = trace[i].day

\* C5: no step of any operation (get_rate, the backward searches, the
\* monthly aggregation, the daily report, the retry) removes a day from
\* rate_cache or changes the rate stored for a day: rate_cache only grows.
C5_CacheOnlyGrows ==
    [][\A d \in DOMAIN rate_cache :
            d \in DOMAIN rate_cache' /\ rate_cache'[d] = rate_cache[d]]_vars

\* A daily report that started with a rate in rate_cache and requested the
\* rate of a day that rate_cache held no rate for has added that rate and
\* kept the one it started with.
C5_Witness ==
    /\ call.op = "daily_report"
    /\ call.before # Empty
    /\ \E d \in DOMAIN rate_cache : d \notin DOMAIN call.before
    /\ \A d \in DOMAIN call.before :
            d \in DOMAIN rate_cache /\ rate_cache[d] = call.before[d]

====
